---- MODULE Spec2Model ----
(***************************************************************************)
(* FluentMCP: the tool registry, the protocol-version negotiation and the  *)
(* tool-list handler of src/src/fluent-mcp.js (the same code is in         *)
(* src/src/server.ts), with the schema introspector they call.             *)
(*                                                                         *)
(* A JavaScript Map is a sequence of entries with distinct keys, in        *)
(* insertion order.  A JavaScript object literal is a function from its    *)
(* keys to its values; where the key order is observable (the properties   *)
(* of a description, the entries of a shape) it is a sequence of           *)
(* [key, value] records.                                                   *)
(***************************************************************************)
EXTENDS Integers, Sequences, FiniteSets, TLC

\* ------------------------------------------------------------------------
\* Bounds of the model
\* ------------------------------------------------------------------------
\* number of concurrent SSE connections of the servlet
MaxConnections == 2
\* number of fields of the object schemas and mappings given to the introspector
MaxFields == 2
\* number of transports one client constructs, and of close calls in flight
MaxTransports == 3

\* ------------------------------------------------------------------------
\* Protocol revisions
\* ------------------------------------------------------------------------
LEGACY == "2024-11-05"
MODERN == "2025-03-26"
\* the value of negotiatedProtocolVersion before any handshake (JS null)
NULL == "null"
\* request.params?.protocolVersion of a request without the field
ABSENT == "undefined"

\* ------------------------------------------------------------------------
\* Schema values (what callers pass as `schema`)
\* ------------------------------------------------------------------------
\* js: "null" (null / undefined), "primitive" (a non-object such as a
\* string), "object" (a plain object without _def), "zod" (has _def).
JsNull == [js |-> "null"]
JsPrimitive == [js |-> "primitive"]
PlainObject(entries) == [js |-> "object", entries |-> entries]
Entry(k, v) == [key |-> k, value |-> v]

\* description "" is the absent description (both are falsy in the code)
ZodString(desc, checks) ==
  [js |-> "zod", typeName |-> "ZodString", description |-> desc, checks |-> checks]
ZodNumber(desc) == [js |-> "zod", typeName |-> "ZodNumber", description |-> desc]
ZodBoolean(desc) == [js |-> "zod", typeName |-> "ZodBoolean", description |-> desc]
ZodEnum(desc, values) ==
  [js |-> "zod", typeName |-> "ZodEnum", description |-> desc, values |-> values]
ZodArray(desc, element) ==
  [js |-> "zod", typeName |-> "ZodArray", description |-> desc, type |-> element]
ZodObject(desc, shape) ==
  [js |-> "zod", typeName |-> "ZodObject", description |-> desc, shape |-> shape]
ZodOptional(desc, inner) ==
  [js |-> "zod", typeName |-> "ZodOptional", description |-> desc, innerType |-> inner]
ZodDefault(desc, inner, dflt) ==
  [js |-> "zod", typeName |-> "ZodDefault", description |-> desc,
   innerType |-> inner, defaultValue |-> dflt]
ZodUnion(desc, opts) ==
  [js |-> "zod", typeName |-> "ZodUnion", description |-> desc, options |-> opts]
ZodDate(desc) == [js |-> "zod", typeName |-> "ZodDate", description |-> desc]
Check(kind, value) == [kind |-> kind, value |-> value]

HasDef(s) == s.js = "zod"
Truthy(s) == s.js # "null"

\* ------------------------------------------------------------------------
\* Object literals
\* ------------------------------------------------------------------------
\* { ...a, ...b }: the keys of both, b's value where both have the key
Spread(a, b) ==
  [k \in DOMAIN a \cup DOMAIN b |-> IF k \in DOMAIN b THEN b[k] ELSE a[k]]

\* what a thrown TypeError looks like as the value of a conversion
TypeError == [error |-> "TypeError"]
Threw(d) == "error" \in DOMAIN d

\* ------------------------------------------------------------------------
\* The introspector of FluentMCP
\* ------------------------------------------------------------------------
_isOptional(zodSchema) ==
  zodSchema.typeName = "ZodOptional" \/ zodSchema.typeName = "ZodDefault"

\* an object literal that lists the name of a property that is not there
ObjectDescriptionStrayRequired(properties, required) ==
  [type |-> "object", properties |-> properties,
   required |-> required \o <<"id">>, additionalProperties |-> FALSE]

\* an object literal that carries required even when it is empty
ObjectDescriptionAlwaysRequired(properties, required) ==
  [type |-> "object", properties |-> properties, required |-> required,
   additionalProperties |-> FALSE]

\* the { type: "object", properties, required?, additionalProperties } literal
ObjectDescription(properties, required) ==
  IF Len(required) > 0
  THEN [type |-> "object", properties |-> properties, required |-> required,
        additionalProperties |-> FALSE]
  ELSE [type |-> "object", properties |-> properties,
        additionalProperties |-> FALSE]

\* the last check of the kind, as the forEach overwrites earlier ones
RECURSIVE ApplyChecks(_, _)
ApplyChecks(stringSchema, checks) ==
  IF checks = <<>> THEN stringSchema
  ELSE LET check == Head(checks)
           withMin == IF check.kind = "min"
                      THEN Spread(stringSchema, [minLength |-> check.value])
                      ELSE stringSchema
           withMax == IF check.kind = "max"
                      THEN Spread(withMin, [maxLength |-> check.value])
                      ELSE withMin
       IN ApplyChecks(withMax, Tail(checks))

WithDescription(d, zodSchema) ==
  IF zodSchema.description # ""
  THEN Spread(d, [description |-> zodSchema.description])
  ELSE d

RECURSIVE _convertZodToJsonSchema(_)
_convertZodToJsonSchema(zodSchema) ==
  IF zodSchema.js = "null" THEN TypeError
  ELSE IF ~HasDef(zodSchema) THEN [type |-> "object"]
  ELSE CASE zodSchema.typeName = "ZodObject" ->
         LET shape == zodSchema.shape
             conv == [i \in 1..Len(shape) |-> _convertZodToJsonSchema(shape[i].value)]
             \* value._def.typeName of a child without _def throws
             bad == \E i \in 1..Len(shape) : Threw(conv[i]) \/ ~HasDef(shape[i].value)
             properties == [i \in 1..Len(shape) |-> Entry(shape[i].key, conv[i])]
             req == SelectSeq(shape, LAMBDA e : ~_isOptional(e.value))
             required == [i \in 1..Len(req) |-> req[i].key]
         IN IF bad THEN TypeError ELSE ObjectDescription(properties, required)
       [] zodSchema.typeName = "ZodString" ->
         ApplyChecks(WithDescription([type |-> "string"], zodSchema), zodSchema.checks)
       [] zodSchema.typeName = "ZodNumber" ->
         WithDescription([type |-> "number"], zodSchema)
       [] zodSchema.typeName = "ZodBoolean" ->
         WithDescription([type |-> "boolean"], zodSchema)
       [] zodSchema.typeName = "ZodEnum" ->
         WithDescription([type |-> "string", enum |-> zodSchema.values], zodSchema)
       [] zodSchema.typeName = "ZodDefault" ->
         LET baseSchema == _convertZodToJsonSchema(zodSchema.innerType)
         IN IF Threw(baseSchema) THEN TypeError
            ELSE Spread(baseSchema, [default |-> zodSchema.defaultValue])
       [] zodSchema.typeName = "ZodOptional" ->
         _convertZodToJsonSchema(zodSchema.innerType)
       [] OTHER -> [type |-> "string"]

\* a mapping converter that describes the values without _def too
_convertObjectToJsonSchemaKeeping(obj) ==
  LET kept == SelectSeq(obj.entries, LAMBDA e : Truthy(e.value))
      conv == [i \in 1..Len(kept) |-> _convertZodToJsonSchema(kept[i].value)]
      properties == [i \in 1..Len(kept) |-> Entry(kept[i].key, conv[i])]
      req == SelectSeq(kept, LAMBDA e : HasDef(e.value) /\ ~_isOptional(e.value))
      required == [i \in 1..Len(req) |-> req[i].key]
  IN IF \E i \in 1..Len(kept) : Threw(conv[i]) THEN TypeError
     ELSE ObjectDescription(properties, required)

_convertObjectToJsonSchema(obj) ==
  LET kept == SelectSeq(obj.entries, LAMBDA e : Truthy(e.value) /\ HasDef(e.value))
      conv == [i \in 1..Len(kept) |-> _convertZodToJsonSchema(kept[i].value)]
      properties == [i \in 1..Len(kept) |-> Entry(kept[i].key, conv[i])]
      req == SelectSeq(kept, LAMBDA e : ~_isOptional(e.value))
      required == [i \in 1..Len(req) |-> req[i].key]
  IN IF \E i \in 1..Len(kept) : Threw(conv[i]) THEN TypeError
     ELSE ObjectDescription(properties, required)

\* ------------------------------------------------------------------------
\* The exported introspector (src/src/zod-schema.ts)
\* ------------------------------------------------------------------------
\* isOptional without the ZodDefault disjunct
isOptionalOnlyWrapper(zodSchema) ==
  zodSchema.typeName = "ZodOptional"

isOptional(zodSchema) ==
  zodSchema.typeName = "ZodOptional" \/ zodSchema.typeName = "ZodDefault"

\* an array description that does not recurse into the element
ArrayDescriptionFlat(itemsSchema) ==
  [type |-> "array", items |-> [type |-> "string"]]

\* the { type: "array", items: itemsSchema } literal
ArrayDescription(itemsSchema) ==
  [type |-> "array", items |-> itemsSchema]

\* a default overlay that lets a default of the wrapped description win
DefaultDescriptionInnerWins(base, defaultValue) ==
  Spread([default |-> defaultValue], base)

\* the { ...base, default: defaultValue() } literal
DefaultDescription(base, defaultValue) ==
  Spread(base, [default |-> defaultValue])

\* an optional wrapper that marks the description of the wrapped schema
OptionalDescriptionMarked(inner) ==
  Spread(inner, [optional |-> TRUE])

\* the ZodOptional case returns the description of the wrapped schema
OptionalDescription(inner) == inner

\* an unrecognised tag described by the degrade default of a missing tag
UnrecognizedAsObject == [type |-> "object"]

\* the default of the switch: the description of an unrecognised tag
UnrecognizedDescription == [type |-> "string"]

RECURSIVE convertZodToJsonSchema(_)
convertZodToJsonSchema(zodSchema) ==
  IF ~Truthy(zodSchema) \/ ~HasDef(zodSchema) THEN [type |-> "object"]
  ELSE CASE zodSchema.typeName = "ZodObject" ->
         LET shape == zodSchema.shape
             conv == [i \in 1..Len(shape) |-> convertZodToJsonSchema(shape[i].value)]
             \* isOptional(value) reads value._def.typeName: a null child or a
             \* child without _def throws
             bad == \E i \in 1..Len(shape) : Threw(conv[i]) \/ ~HasDef(shape[i].value)
             properties == [i \in 1..Len(shape) |-> Entry(shape[i].key, conv[i])]
             req == SelectSeq(shape, LAMBDA e : ~isOptional(e.value))
             required == [i \in 1..Len(req) |-> req[i].key]
         IN IF bad THEN TypeError ELSE ObjectDescription(properties, required)
       [] zodSchema.typeName = "ZodString" ->
         ApplyChecks(WithDescription([type |-> "string"], zodSchema), zodSchema.checks)
       [] zodSchema.typeName = "ZodNumber" ->
         WithDescription([type |-> "number"], zodSchema)
       [] zodSchema.typeName = "ZodBoolean" ->
         WithDescription([type |-> "boolean"], zodSchema)
       [] zodSchema.typeName = "ZodEnum" ->
         WithDescription([type |-> "string", enum |-> zodSchema.values], zodSchema)
       [] zodSchema.typeName = "ZodArray" ->
         LET itemsSchema == convertZodToJsonSchema(zodSchema.type)
         IN IF Threw(itemsSchema) THEN TypeError ELSE ArrayDescription(itemsSchema)
       [] zodSchema.typeName = "ZodUnion" ->
         LET opts == zodSchema.options
             conv == [i \in 1..Len(opts) |-> convertZodToJsonSchema(opts[i])]
         IN IF \E i \in 1..Len(opts) : Threw(conv[i]) THEN TypeError
            ELSE [oneOf |-> conv]
       [] zodSchema.typeName = "ZodDate" ->
         [type |-> "string", format |-> "date-time"]
       [] zodSchema.typeName = "ZodDefault" ->
         LET base == convertZodToJsonSchema(zodSchema.innerType)
         IN IF Threw(base) THEN TypeError
            ELSE DefaultDescription(base, zodSchema.defaultValue)
       [] zodSchema.typeName = "ZodOptional" ->
         LET inner == convertZodToJsonSchema(zodSchema.innerType)
         IN IF Threw(inner) THEN TypeError ELSE OptionalDescription(inner)
       [] OTHER -> UnrecognizedDescription

\* a mapping converter that lists every kept key as required
convertObjectToJsonSchemaAllRequired(obj) ==
  LET kept == SelectSeq(obj.entries, LAMBDA e : Truthy(e.value) /\ HasDef(e.value))
      conv == [i \in 1..Len(kept) |-> convertZodToJsonSchema(kept[i].value)]
      properties == [i \in 1..Len(kept) |-> Entry(kept[i].key, conv[i])]
      required == [i \in 1..Len(kept) |-> kept[i].key]
  IN IF \E i \in 1..Len(kept) : Threw(conv[i]) THEN TypeError
     ELSE ObjectDescription(properties, required)

convertObjectToJsonSchema(obj) ==
  LET kept == SelectSeq(obj.entries, LAMBDA e : Truthy(e.value) /\ HasDef(e.value))
      conv == [i \in 1..Len(kept) |-> convertZodToJsonSchema(kept[i].value)]
      properties == [i \in 1..Len(kept) |-> Entry(kept[i].key, conv[i])]
      req == SelectSeq(kept, LAMBDA e : ~isOptional(e.value))
      required == [i \in 1..Len(req) |-> req[i].key]
  IN IF \E i \in 1..Len(kept) : Threw(conv[i]) THEN TypeError
     ELSE ObjectDescription(properties, required)

\* ------------------------------------------------------------------------
\* Registration
\* ------------------------------------------------------------------------
_extractToolInfo(name, schema) ==
  LET isObject == schema.js \in {"object", "zod"}
      description ==
        IF isObject /\ HasDef(schema) /\ schema.typeName = "ZodObject"
        THEN schema.description ELSE ""
      inputSchema ==
        IF ~isObject THEN [type |-> "object"]
        ELSE IF HasDef(schema) THEN _convertZodToJsonSchema(schema)
        ELSE _convertObjectToJsonSchema(schema)
  IN IF Threw(inputSchema) THEN TypeError
     ELSE [name |-> name, description |-> description, inputSchema |-> inputSchema]

\* ------------------------------------------------------------------------
\* Inputs
\* ------------------------------------------------------------------------
\* instance 0 is the stdio server of src/src/mcp-servlet.js; instances
\* 1..MaxConnections are the servers the SSE servlet creates per connection
Stdio == 0
Connections == 1..MaxConnections
Instances == {Stdio} \cup Connections

ToolNames == {"echo", "getNote"}

MsgShape == <<Entry("msg", ZodString("", <<>>))>>
ToolSchemas ==
  { JsNull,
    PlainObject(MsgShape),
    ZodObject("Echoes input", MsgShape),
    ZodString("short name", <<Check("min", 3), Check("max", 10)>>) }

CrudNames == {"Note"}
CrudSchemas ==
  { PlainObject(<<Entry("title", ZodString("The title of the note", <<>>))>>),
    PlainObject(<<Entry("title", ZodString("", <<>>)),
                  Entry("done", ZodDefault("", ZodBoolean(""), "false"))>>) }

\* protocolVersion strings a client may claim
ClaimedVersions == {LEGACY, MODERN, "2024-11-5", ABSENT}

ResourceNames == {"Notes"}
ResourceIds == {"1"}
\* stored values: an object, and a falsy value such as 0 or ""
ObjectValue == [title |-> "A"]
FalsyValue == [falsy |-> TRUE]
ResourceValues == {ObjectValue, FalsyValue}
IsTruthy(v) == "falsy" \notin DOMAIN v

EmptyObject == <<>>
HasKey(obj, k) == k \in DOMAIN obj
DeleteKey(obj, k) == [j \in DOMAIN obj \ {k} |-> obj[j]]

ToLowerCase(s) == CASE s = "Note" -> "note" [] OTHER -> s

\* ------------------------------------------------------------------------
\* State
\* ------------------------------------------------------------------------
VARIABLES
  toolRegistry,               \* per instance: Map name -> toolInfo, in insertion order
  negotiatedProtocolVersion,  \* per instance: NULL, LEGACY or MODERN
  resources,                  \* per instance: store name -> (id -> value)
  pc,                         \* per instance: where start() is
  reply,                      \* the last call or request and what it returned
  registered,                 \* history: per instance, names in order of first registration
  options,                    \* per instance: this.options
  crudOptions,                \* per instance: the crudOptions the handlers of crud() closed over
  client                      \* the FluentMCPClient: its fields and its calls in flight

vars == <<toolRegistry, negotiatedProtocolVersion, resources, pc, reply, registered,
          options, crudOptions, client>>

\* existed: whether the tool name of the call was in the registry before it
Reply(op, inst, name, schema, protocolVersion, tools) ==
  [op |-> op, inst |-> inst, name |-> name, schema |-> schema,
   protocolVersion |-> protocolVersion, tools |-> tools, existed |-> FALSE]

\* ------------------------------------------------------------------------
\* Map and registry
\* ------------------------------------------------------------------------
MapHas(map, key) == \E i \in 1..Len(map) : map[i].key = key
MapGet(map, key) == map[CHOOSE i \in 1..Len(map) : map[i].key = key].value
MapKeys(map) == [i \in 1..Len(map) |-> map[i].key]

\* set() that deletes the old entry first, so a re-set key moves to the end
MapSetMoveToEnd(map, key, value) ==
  Append(SelectSeq(map, LAMBDA e : e.key # key), Entry(key, value))

\* set() of an existing key that deletes it and forgets to add it back
MapSetDeleteExisting(map, key, value) ==
  IF MapHas(map, key) THEN SelectSeq(map, LAMBDA e : e.key # key)
  ELSE Append(map, Entry(key, value))

\* Map.prototype.set: an existing key keeps its place
MapSet(map, key, value) ==
  IF MapHas(map, key)
  THEN [i \in 1..Len(map) |-> IF map[i].key = key THEN Entry(key, value) ELSE map[i]]
  ELSE Append(map, Entry(key, value))

\* tool() that keeps the old description when the new one is empty
toolKeepDescription(registry, name, schema) ==
  LET toolInfo == _extractToolInfo(name, schema)
      old == MapGet(registry, name)
  IN IF Threw(toolInfo) THEN registry
     ELSE IF MapHas(registry, name) /\ toolInfo.description = ""
     THEN MapSet(registry, name, [toolInfo EXCEPT !.description = old.description])
     ELSE MapSet(registry, name, toolInfo)

\* tool(): the registry after the call; a throwing conversion leaves it alone
tool(registry, name, schema) ==
  LET toolInfo == _extractToolInfo(name, schema)
  IN IF Threw(toolInfo) THEN registry ELSE MapSet(registry, name, toolInfo)

toolThrows(name, schema) == Threw(_extractToolInfo(name, schema))

\* the five tool() calls of crud(), in order
CrudTools(resourceName, schema) ==
  LET singularName == resourceName
      pluralName == resourceName \o "s"
      idOf(verb) == ZodString("The ID of the " \o ToLowerCase(singularName)
                                \o " to " \o verb, <<>>)
      rest == SelectSeq(schema.entries, LAMBDA e : e.key # "id")
      idEntry == IF \E i \in 1..Len(schema.entries) : schema.entries[i].key = "id"
                 THEN Entry("id", (CHOOSE e \in {schema.entries[i] : i \in 1..Len(schema.entries)} :
                                     e.key = "id").value)
                 ELSE Entry("id", idOf("update"))
  IN << Entry("get" \o singularName, PlainObject(<<Entry("id", idOf("retrieve"))>>)),
        Entry("getAll" \o pluralName, PlainObject(<<>>)),
        Entry("create" \o singularName, schema),
        Entry("update" \o singularName, PlainObject(<<idEntry>> \o rest)),
        Entry("delete" \o singularName, PlainObject(<<Entry("id", idOf("delete"))>>)) >>

\* tool() called for each in turn; the first throw ends the sequence
RECURSIVE RegisterAll(_, _)
RegisterAll(registry, calls) ==
  IF calls = <<>> THEN registry
  ELSE LET c == Head(calls)
       IN IF toolThrows(c.key, c.value) THEN registry
          ELSE RegisterAll(tool(registry, c.key, c.value), Tail(calls))

\* history of first registrations
RECURSIVE NoteAll(_, _)
NoteAll(names, keys) ==
  IF keys = <<>> THEN names
  ELSE LET k == Head(keys)
       IN NoteAll(IF \E i \in 1..Len(names) : names[i] = k THEN names
                  ELSE Append(names, k), Tail(keys))

\* ------------------------------------------------------------------------
\* Negotiation and the tool list
\* ------------------------------------------------------------------------
\* a handler that takes a request without protocolVersion for a legacy client
NegotiateMissingAsLegacy(clientVersion) ==
  IF clientVersion \in {LEGACY, ABSENT} THEN LEGACY ELSE MODERN

\* the revision the initialize handler stores for a claimed protocolVersion
Negotiate(clientVersion) ==
  IF clientVersion = LEGACY THEN LEGACY ELSE MODERN

\* the negotiated revision kept in one module-level variable
StoreNegotiatedShared(negotiated, i, revision) ==
  [j \in DOMAIN negotiated |-> revision]

\* this.negotiatedProtocolVersion = ...: a field of this instance
StoreNegotiated(negotiated, i, revision) ==
  [negotiated EXCEPT ![i] = revision]

\* const protocolVersion = this.negotiatedProtocolVersion || '2025-03-26'
EffectiveVersion(negotiated) ==
  IF negotiated = NULL THEN MODERN ELSE negotiated

\* an element shaped by the revision: legacy clients get no annotations
ToolListEntryByRevision(toolName, toolInfo, protocolVersion) ==
  IF protocolVersion = LEGACY
  THEN [name |-> toolName,
        description |-> toolInfo.description,
        inputSchema |-> toolInfo.inputSchema]
  ELSE [name |-> toolName,
        description |-> toolInfo.description,
        inputSchema |-> toolInfo.inputSchema,
        annotations |-> Spread([description |-> toolInfo.description],
                               toolInfo.inputSchema)]

\* one element of the tools array
ToolListEntry(toolName, toolInfo, protocolVersion) ==
  [name |-> toolName,
   description |-> toolInfo.description,
   inputSchema |-> toolInfo.inputSchema,
   annotations |-> Spread([description |-> toolInfo.description], toolInfo.inputSchema)]

\* a handler that answers from the registry as it was when start() installed
\* it on a server without tools
ListToolsResultAtStart(registry, negotiated) == <<>>

\* a handler that leaves out the tools without a description
ListToolsResultDescribed(registry, negotiated) ==
  LET protocolVersion == EffectiveVersion(negotiated)
      described == SelectSeq(registry, LAMBDA e : e.value.description # "")
  IN [i \in 1..Len(described) |->
        ToolListEntry(described[i].key, described[i].value, protocolVersion)]

\* the body of the ListTools handler
ListToolsResult(registry, negotiated) ==
  LET protocolVersion == EffectiveVersion(negotiated)
  IN [i \in 1..Len(registry) |->
        ToolListEntry(registry[i].key, registry[i].value, protocolVersion)]

\* ------------------------------------------------------------------------
\* Initial state
\* ------------------------------------------------------------------------
\* the options of the constructor when the caller passes none
DefaultOptions == [autoGenerateIds |-> TRUE, timestampEntries |-> TRUE]
\* crudOptions of an instance on which crud() has not been called
NoCrud == <<>>

\* a transport object, and the value of a field no code has assigned
Transport(n) == [id |-> n]
JsUndefined == [js |-> "undefined"]
IsTransport(v) == "id" \in DOMAIN v

\* new FluentMCPClient(name): no transportType, no transportOptions, no
\* transport.  created counts the transports connect() has constructed,
\* connecting holds those client.connect has not settled, closing the
\* transports of the disconnect() calls whose close has not settled, and
\* connected is history: whether the last connect() or disconnect() that
\* completed its work was a connect()
NewClient ==
  [transportType |-> "undefined", url |-> "", transport |-> JsUndefined,
   created |-> 0, connecting |-> {}, closing |-> <<>>, connected |-> FALSE]

\* the fields the constructors set, but for options
InitServer ==
  /\ toolRegistry = [i \in Instances |-> <<>>]
  /\ negotiatedProtocolVersion = [i \in Instances |-> NULL]
  /\ resources = [i \in Instances |-> EmptyObject]
  /\ pc = [i \in Instances |-> IF i = Stdio THEN "new" ELSE "none"]
  /\ registered = [i \in Instances |-> <<>>]
  /\ crudOptions = [i \in Instances |-> NoCrud]
  /\ client = NewClient

Init ==
  /\ InitServer
  /\ options = [i \in Instances |-> DefaultOptions]
  /\ reply = Reply("new", Stdio, "", JsNull, NULL, <<>>)

Alive(i) == pc[i] \in {"new", "connecting", "started"}

\* ------------------------------------------------------------------------
\* Operations of one instance
\* ------------------------------------------------------------------------
Tool(i, name, schema) ==
  /\ Alive(i)
  /\ toolRegistry' = [toolRegistry EXCEPT ![i] = tool(@, name, schema)]
  /\ registered' = [registered EXCEPT ![i] =
                      IF toolThrows(name, schema) THEN @ ELSE NoteAll(@, <<name>>)]
  /\ reply' = [Reply(IF toolThrows(name, schema) THEN "tool:throw" ELSE "tool",
                     i, name, schema, NULL, <<>>)
                 EXCEPT !.existed = MapHas(toolRegistry[i], name)]
  /\ UNCHANGED <<negotiatedProtocolVersion, resources, pc,
               options, crudOptions, client>>

\* const crudOptions = { singularName, pluralName, generateIds, timestamps, ...options }
CrudOptions(resourceName, instanceOptions, opts) ==
  Spread([singularName |-> resourceName,
          pluralName |-> resourceName \o "s",
          generateIds |-> instanceOptions.autoGenerateIds,
          timestamps |-> instanceOptions.timestampEntries],
         opts)

\* crud(resourceName, schema, options)
CrudWith(i, resourceName, schema, opts) ==
  LET pluralName == resourceName \o "s"
      calls == CrudTools(resourceName, schema)
  IN /\ Alive(i)
     /\ resources' = [resources EXCEPT ![i] =
                        IF HasKey(@, pluralName) THEN @
                        ELSE Spread(@, pluralName :> EmptyObject)]
     /\ toolRegistry' = [toolRegistry EXCEPT ![i] = RegisterAll(@, calls)]
     /\ registered' = [registered EXCEPT ![i] =
                         NoteAll(@, MapKeys(RegisterAll(<<>>, calls)))]
     /\ crudOptions' = [crudOptions EXCEPT ![i] =
                          CrudOptions(resourceName, options[i], opts)]
     /\ reply' = Reply("crud", i, resourceName, schema, NULL, <<>>)
     /\ UNCHANGED <<negotiatedProtocolVersion, pc, options, client>>

\* crud(resourceName, schema)
Crud(i, resourceName, schema) == CrudWith(i, resourceName, schema, EmptyObject)

\* getResource(name): this.resources[name] || {}
getResource(stores, name) ==
  IF HasKey(stores, name) THEN stores[name] ELSE EmptyObject

Resource(i, name, initialData) ==
  /\ Alive(i)
  /\ resources' = [resources EXCEPT ![i] = Spread(@, name :> initialData)]
  /\ reply' = Reply("resource", i, name, JsNull, NULL, <<>>)
  /\ UNCHANGED <<toolRegistry, negotiatedProtocolVersion, pc, registered,
               options, crudOptions, client>>

SetResource(i, name, id, data) ==
  /\ Alive(i)
  /\ resources' = [resources EXCEPT ![i] =
       LET store == IF HasKey(@, name) THEN @[name] ELSE EmptyObject
       IN Spread(@, name :> Spread(store, id :> data))]
  /\ reply' = Reply("setResource", i, name, JsNull, NULL, <<>>)
  /\ UNCHANGED <<toolRegistry, negotiatedProtocolVersion, pc, registered,
               options, crudOptions, client>>

DeleteResource(i, name, id) ==
  /\ Alive(i)
  /\ resources' = [resources EXCEPT ![i] =
       IF HasKey(@, name) /\ HasKey(@[name], id) /\ IsTruthy(@[name][id])
       THEN Spread(@, name :> DeleteKey(@[name], id))
       ELSE @]
  /\ reply' = Reply("deleteResource", i, name, JsNull, NULL, <<>>)
  /\ UNCHANGED <<toolRegistry, negotiatedProtocolVersion, pc, registered,
               options, crudOptions, client>>

\* start() up to the await: _setupMcpVersioning installs the initialize handler
StartSetup(i) ==
  /\ pc[i] = "new"
  /\ pc' = [pc EXCEPT ![i] = "connecting"]
  /\ reply' = Reply("start", i, "", JsNull, NULL, <<>>)
  /\ UNCHANGED <<toolRegistry, negotiatedProtocolVersion, resources, registered,
               options, crudOptions, client>>

\* server.connect resolved: _setupVersionedToolsList installs the list handler
StartConnected(i) ==
  /\ pc[i] = "connecting"
  /\ pc' = [pc EXCEPT ![i] = "started"]
  /\ reply' = Reply("started", i, "", JsNull, NULL, <<>>)
  /\ UNCHANGED <<toolRegistry, negotiatedProtocolVersion, resources, registered,
               options, crudOptions, client>>

\* server.connect rejected: process.exit(1)
StartFailed(i) ==
  /\ pc[i] = "connecting"
  /\ pc' = [pc EXCEPT ![i] = "exited"]
  /\ reply' = Reply("exit", i, "", JsNull, NULL, <<>>)
  /\ UNCHANGED <<toolRegistry, negotiatedProtocolVersion, resources, registered,
               options, crudOptions, client>>

\* the initialize request handler
Initialize(i, clientVersion) ==
  /\ pc[i] \in {"connecting", "started"}
  /\ negotiatedProtocolVersion' =
       StoreNegotiated(negotiatedProtocolVersion, i, Negotiate(clientVersion))
  /\ reply' = Reply("initialize", i, clientVersion, JsNull,
                    negotiatedProtocolVersion'[i], <<>>)
  /\ UNCHANGED <<toolRegistry, resources, pc, registered,
               options, crudOptions, client>>

\* a list handler that stores the default it assumed
ListToolsStoring(i) ==
  /\ pc[i] = "started"
  /\ reply' = Reply("tools/list", i, "", JsNull,
                    EffectiveVersion(negotiatedProtocolVersion[i]),
                    ListToolsResult(toolRegistry[i], negotiatedProtocolVersion[i]))
  /\ negotiatedProtocolVersion' =
       [negotiatedProtocolVersion EXCEPT ![i] = EffectiveVersion(@)]
  /\ UNCHANGED <<toolRegistry, resources, pc, registered,
               options, crudOptions, client>>

\* the tools/list request handler
ListTools(i) ==
  /\ pc[i] = "started"
  /\ reply' = Reply("tools/list", i, "", JsNull,
                    EffectiveVersion(negotiatedProtocolVersion[i]),
                    ListToolsResult(toolRegistry[i], negotiatedProtocolVersion[i]))
  /\ UNCHANGED <<toolRegistry, negotiatedProtocolVersion, resources, pc, registered,
               options, crudOptions, client>>

\* ------------------------------------------------------------------------
\* The stdio server
\* ------------------------------------------------------------------------
Next ==
  \/ \E name \in ToolNames, schema \in ToolSchemas : Tool(Stdio, name, schema)
  \/ \E r \in CrudNames, schema \in CrudSchemas : Crud(Stdio, r, schema)
  \/ \E name \in ResourceNames : Resource(Stdio, name, EmptyObject)
  \/ \E name \in ResourceNames, id \in ResourceIds, data \in ResourceValues :
       SetResource(Stdio, name, id, data)
  \/ \E name \in ResourceNames, id \in ResourceIds : DeleteResource(Stdio, name, id)
  \/ StartSetup(Stdio)
  \/ StartConnected(Stdio)
  \/ StartFailed(Stdio)
  \/ \E v \in ClaimedVersions : Initialize(Stdio, v)
  \/ ListTools(Stdio)

Spec == Init /\ [][Next]_vars

\* ------------------------------------------------------------------------
\* The SSE servlet: every GET /sse builds its own server
\* ------------------------------------------------------------------------
AgentShape ==
  << Entry("instruction", ZodString("instruction", <<>>)),
     Entry("prompt", ZodString("prompt", <<>>)),
     Entry("context", ZodString("context", <<>>)) >>

createServerInstance ==
  tool(<<>>, "call_agent_with_prompt_and_context", PlainObject(AgentShape))

\* app.get('/sse'): createServerInstance().sse('/messages', res).start()
SseConnect(c) ==
  /\ pc[c] = "none"
  /\ toolRegistry' = [toolRegistry EXCEPT ![c] = createServerInstance]
  /\ registered' = [registered EXCEPT ![c] = MapKeys(createServerInstance)]
  /\ negotiatedProtocolVersion' = [negotiatedProtocolVersion EXCEPT ![c] = NULL]
  /\ pc' = [pc EXCEPT ![c] = "connecting"]
  /\ reply' = Reply("connect", c, "", JsNull, NULL, <<>>)
  /\ UNCHANGED <<resources, options, crudOptions, client>>

NextSse ==
  \/ \E c \in Connections : SseConnect(c)
  \/ \E c \in Connections : StartConnected(c)
  \/ \E c \in Connections, v \in ClaimedVersions : Initialize(c, v)
  \/ \E c \in Connections : ListTools(c)

SpecSse == Init /\ [][NextSse]_vars

\* ------------------------------------------------------------------------
\* The introspector on its own: one schema, one call
\* ------------------------------------------------------------------------
FieldNames == <<"title", "tags", "done", "due">>
Plain == ZodString("", <<>>)
\* a _def whose typeName no case of the switch names
ZodUnknown == [js |-> "zod", typeName |-> "ZodBigInt", description |-> ""]

\* what a field of an object schema or of a mapping can be
FieldSchemas ==
  { Plain,
    ZodString("short name", <<Check("min", 3), Check("max", 10)>>),
    ZodNumber("count"),
    ZodBoolean(""),
    ZodEnum("", <<"a", "b">>),
    ZodDate("when"),
    ZodArray("", Plain),
    ZodArray("tags", ZodArray("", Plain)),
    ZodArray("", ZodObject("", <<Entry("title", Plain)>>)),
    ZodUnion("either", <<Plain, ZodNumber("")>>),
    ZodOptional("", ZodArray("", Plain)),
    ZodOptional("optional note", Plain),
    ZodDefault("", Plain, "x"),
    ZodOptional("", ZodDefault("", Plain, "x")),
    ZodObject("", <<>>),
    ZodObject("nested", <<Entry("title", Plain)>>),
    ZodUnknown,
    JsNull,
    PlainObject(<<>>) }

\* the shapes of n fields, named in declaration order
Shapes(n) ==
  { [i \in 1..n |-> Entry(FieldNames[i], f[i])] : f \in [1..n -> FieldSchemas] }
ShapesUpTo == UNION { Shapes(n) : n \in 0..MaxFields }

\* schemas with repeated checks, nested wrappers and a described unknown tag
WrappedSchemas ==
  { ZodString("", <<Check("min", 3), Check("min", 5), Check("max", 10), Check("max", 8)>>),
    ZodString("", <<Check("max", 10)>>),
    ZodDefault("", ZodDefault("", Plain, "x"), "y"),
    ZodDefault("", ZodOptional("", Plain), "x"),
    ZodDefault("", ZodString("short name", <<Check("min", 3), Check("max", 10)>>), "x"),
    ZodOptional("", ZodObject("nested", <<Entry("title", Plain)>>)),
    [js |-> "zod", typeName |-> "ZodBigInt", description |-> "big"] }

\* what a caller can hand to the introspector or to tool()
Schemas ==
  FieldSchemas \cup {JsPrimitive} \cup WrappedSchemas
    \cup { ZodObject(d, shape) : d \in {"", "Echoes input"}, shape \in ShapesUpTo }
    \cup { PlainObject(shape) : shape \in ShapesUpTo }

Input(schema) == [op |-> "input", schema |-> schema]
Described(op, schema, result) == [op |-> op, schema |-> schema, result |-> result]

InitDescribe ==
  /\ InitServer
  /\ options = [i \in Instances |-> DefaultOptions]
  /\ \E schema \in Schemas : reply = Input(schema)

\* convertZodToJsonSchema(schema)
Describe ==
  /\ reply.op = "input"
  /\ reply' = Described("convertZodToJsonSchema", reply.schema,
                        convertZodToJsonSchema(reply.schema))
  /\ UNCHANGED <<toolRegistry, negotiatedProtocolVersion, resources, pc, registered,
                 options, crudOptions, client>>

\* convertObjectToJsonSchema(obj) of a mapping
DescribeMapping ==
  /\ reply.op = "input"
  /\ reply.schema.js = "object"
  /\ reply' = Described("convertObjectToJsonSchema", reply.schema,
                        convertObjectToJsonSchema(reply.schema))
  /\ UNCHANGED <<toolRegistry, negotiatedProtocolVersion, resources, pc, registered,
                 options, crudOptions, client>>

\* mcp._convertZodToJsonSchema(schema)
DescribePrivate ==
  /\ reply.op = "input"
  /\ reply' = Described("_convertZodToJsonSchema", reply.schema,
                        _convertZodToJsonSchema(reply.schema))
  /\ UNCHANGED <<toolRegistry, negotiatedProtocolVersion, resources, pc, registered,
                 options, crudOptions, client>>

\* mcp.tool("echo", schema, handler)
Register ==
  /\ reply.op = "input"
  /\ Tool(Stdio, "echo", reply.schema)

NextDescribe ==
  \/ Describe
  \/ DescribeMapping
  \/ DescribePrivate
  \/ Register

SpecDescribe == InitDescribe /\ [][NextDescribe]_vars

\* ------------------------------------------------------------------------
\* The handlers crud() registers, called on the store crud() made
\* ------------------------------------------------------------------------
\* the names every object inherits from Object.prototype (two of them)
InheritedKeys == {"toString", "__proto__"}
\* what obj[k] gives for an inherited k: a function or the prototype object
Inherited == [inherited |-> TRUE]
Undefined == [falsy |-> TRUE, undefined |-> TRUE]

\* obj[k]: the own property, else the inherited one, else undefined
Lookup(obj, k) ==
  IF HasKey(obj, k) THEN obj[k]
  ELSE IF k \in InheritedKeys THEN Inherited
  ELSE Undefined

\* obj[k] = v: assigning to __proto__ runs the setter of Object.prototype,
\* which makes v the prototype of obj and adds no own property
Assign(obj, k, v) ==
  IF k = "__proto__" THEN obj ELSE Spread(obj, k :> v)

\* { ...item }: the own enumerable properties; a function, the prototype
\* object and a primitive have none
OwnProperties(item) ==
  IF "inherited" \in DOMAIN item \/ "falsy" \in DOMAIN item THEN EmptyObject ELSE item

\* the ids a client sends, and the ids Math.random().toString(36) makes
ItemIds == {"1", "toString", "__proto__"}
GeneratedIds == {"g1"}
\* new Date().toISOString()
Times == {"2026-01-01T00:00:00.000Z"}
\* the arguments of the create handler, with and without an id
CreateData == {[title |-> "A"]} \cup {[id |-> id, title |-> "A"] : id \in ItemIds}
\* the arguments of the update handler but for the id
UpdateData == {[title |-> "B"]}
\* the third argument of crud()
CrudArguments == {EmptyObject, [generateIds |-> FALSE]}
ConstructorOptions ==
  {DefaultOptions, [autoGenerateIds |-> FALSE, timestampEntries |-> FALSE]}
NoteSchema == PlainObject(<<Entry("title", ZodString("The title of the note", <<>>))>>)

\* the object a handler returns as JSON text, with the arguments it was given
HandlerReply(op, i, id, data, success, error) ==
  [op |-> op, inst |-> i, id |-> id, data |-> data, success |-> success, error |-> error]

InitCrud ==
  /\ InitServer
  /\ \E o \in ConstructorOptions : options = [i \in Instances |-> o]
  /\ reply = Reply("new", Stdio, "", JsNull, NULL, <<>>)

\* the get handler
GetItem(i, id) ==
  LET o == crudOptions[i]
      item == Lookup(resources[i][o.pluralName], id)
  IN /\ Alive(i)
     /\ o # NoCrud
     /\ reply' = IF ~IsTruthy(item)
                 THEN HandlerReply("get", i, id, EmptyObject, FALSE,
                                   o.singularName \o " not found")
                 ELSE HandlerReply("get", i, id, EmptyObject, TRUE, "")
     /\ UNCHANGED <<toolRegistry, negotiatedProtocolVersion, resources, pc, registered,
                    options, crudOptions, client>>

\* the create handler
CreateItem(i, data, generated, now) ==
  LET o == crudOptions[i]
      id == IF o.generateIds THEN generated
            ELSE IF HasKey(data, "id") THEN data.id ELSE ""
      timestamps == IF o.timestamps THEN [createdAt |-> now] ELSE EmptyObject
      item == Spread(Spread([id |-> id], data), timestamps)
  IN /\ Alive(i)
     /\ o # NoCrud
     /\ IF id = ""
        THEN /\ reply' = HandlerReply("create", i, id, data, FALSE,
                                      "ID is required when auto-generation is disabled")
             /\ UNCHANGED resources
        ELSE /\ resources' = [resources EXCEPT ![i][o.pluralName] = Assign(@, id, item)]
             /\ reply' = HandlerReply("create", i, id, data, TRUE, "")
     /\ UNCHANGED <<toolRegistry, negotiatedProtocolVersion, pc, registered,
                    options, crudOptions, client>>

\* the update handler: ({ id, ...data })
UpdateItem(i, id, data, now) ==
  LET o == crudOptions[i]
      item == Lookup(resources[i][o.pluralName], id)
      timestamps == IF o.timestamps THEN [updatedAt |-> now] ELSE EmptyObject
      updated == Spread(Spread(OwnProperties(item), data), timestamps)
  IN /\ Alive(i)
     /\ o # NoCrud
     /\ IF ~IsTruthy(item)
        THEN /\ reply' = HandlerReply("update", i, id, data, FALSE,
                                      o.singularName \o " not found")
             /\ UNCHANGED resources
        ELSE /\ resources' = [resources EXCEPT ![i][o.pluralName] = Assign(@, id, updated)]
             /\ reply' = HandlerReply("update", i, id, data, TRUE, "")
     /\ UNCHANGED <<toolRegistry, negotiatedProtocolVersion, pc, registered,
                    options, crudOptions, client>>

\* the delete handler
DeleteItem(i, id) ==
  LET o == crudOptions[i]
      item == Lookup(resources[i][o.pluralName], id)
  IN /\ Alive(i)
     /\ o # NoCrud
     /\ IF ~IsTruthy(item)
        THEN /\ reply' = HandlerReply("delete", i, id, EmptyObject, FALSE,
                                      o.singularName \o " not found")
             /\ UNCHANGED resources
        ELSE /\ resources' = [resources EXCEPT ![i][o.pluralName] =
                                IF HasKey(@, id) THEN DeleteKey(@, id) ELSE @]
             /\ reply' = HandlerReply("delete", i, id, EmptyObject, TRUE, "")
     /\ UNCHANGED <<toolRegistry, negotiatedProtocolVersion, pc, registered,
                    options, crudOptions, client>>

NextCrud ==
  \/ \E r \in CrudNames, opts \in CrudArguments : CrudWith(Stdio, r, NoteSchema, opts)
  \/ \E name \in ResourceNames, id \in ResourceIds, data \in ResourceValues :
       SetResource(Stdio, name, id, data)
  \/ \E id \in ItemIds : GetItem(Stdio, id)
  \/ \E data \in CreateData, generated \in GeneratedIds, now \in Times :
       CreateItem(Stdio, data, generated, now)
  \/ \E id \in ItemIds, data \in UpdateData, now \in Times :
       UpdateItem(Stdio, id, data, now)
  \/ \E id \in ItemIds : DeleteItem(Stdio, id)

SpecCrud == InitCrud /\ [][NextCrud]_vars

\* ------------------------------------------------------------------------
\* Registration on a running server: start() first, then tool() and
\* tools/list requests in turn
\* ------------------------------------------------------------------------
\* tool() on the started server, after a tools/list request was answered
ToolAfterList(name, schema) ==
  /\ pc[Stdio] = "started"
  /\ reply.op = "tools/list"
  /\ Tool(Stdio, name, schema)

\* a tools/list request, the first after start() or the next after tool()
ListAfterTool ==
  /\ reply.op \in {"started", "tool", "tool:throw"}
  /\ ListTools(Stdio)

NextLive ==
  \/ StartSetup(Stdio)
  \/ StartConnected(Stdio)
  \/ \E name \in ToolNames, schema \in ToolSchemas : ToolAfterList(name, schema)
  \/ ListAfterTool

SpecLive == Init /\ [][NextLive]_vars

\* ------------------------------------------------------------------------
\* The client: FluentMCPClient.connect and disconnect
\* ------------------------------------------------------------------------
Urls == {"http://example.com/mcp", "example"}
\* whether new URL(url) returns
ValidUrl(url) == url = "http://example.com/mcp"

\* what a call returned or how its promise settled
ClientReply(op, outcome) == [op |-> op, outcome |-> outcome]

\* the sequence without its k-th element
RemoveAt(seq, k) == [j \in 1..(Len(seq) - 1) |-> IF j < k THEN seq[j] ELSE seq[j + 1]]

\* stdio(command)
ClientStdio ==
  /\ client' = [client EXCEPT !.transportType = "stdio", !.url = ""]
  /\ reply' = ClientReply("stdio", "returned")
  /\ UNCHANGED <<toolRegistry, negotiatedProtocolVersion, resources, pc, registered,
                 options, crudOptions>>

\* http(url)
ClientHttp(url) ==
  /\ client' = [client EXCEPT !.transportType = "http", !.url = url]
  /\ reply' = ClientReply("http", "returned")
  /\ UNCHANGED <<toolRegistry, negotiatedProtocolVersion, resources, pc, registered,
                 options, crudOptions>>

\* connect() up to the await: the transport is constructed, or the call
\* rejects with no transport configured or with the TypeError of new URL
Connect ==
  /\ IF \/ client.transportType = "undefined"
        \/ (client.transportType = "http" /\ ~ValidUrl(client.url))
     THEN /\ reply' = ClientReply("connect", "rejected")
          /\ UNCHANGED client
     ELSE /\ client.created < MaxTransports
          /\ client' = [client EXCEPT !.created = @ + 1,
                                       !.connecting = @ \cup {client.created + 1}]
          /\ reply' = ClientReply("connect", "pending")
  /\ UNCHANGED <<toolRegistry, negotiatedProtocolVersion, resources, pc, registered,
                 options, crudOptions>>

\* a connect() that stores its transport although client.connect failed
ConnectSettledStoring(t, ok) ==
  /\ t \in client.connecting
  /\ client' = [client EXCEPT !.connecting = @ \ {t},
                               !.transport = Transport(t),
                               !.connected = IF ok THEN TRUE ELSE @]
  /\ reply' = ClientReply("connect", IF ok THEN "resolved" ELSE "rejected")
  /\ UNCHANGED <<toolRegistry, negotiatedProtocolVersion, resources, pc, registered,
                 options, crudOptions>>

\* connect() after the await: client.connect(transport) resolved or rejected
ConnectSettled(t, ok) ==
  /\ t \in client.connecting
  /\ client' = [client EXCEPT !.connecting = @ \ {t},
                               !.transport = IF ok THEN Transport(t) ELSE @,
                               !.connected = IF ok THEN TRUE ELSE @]
  /\ reply' = ClientReply("connect", IF ok THEN "resolved" ELSE "rejected")
  /\ UNCHANGED <<toolRegistry, negotiatedProtocolVersion, resources, pc, registered,
                 options, crudOptions>>

\* disconnect() up to the await: returns the client when no transport is
\* stored, else calls close() of the stored transport
Disconnect ==
  /\ IF ~IsTransport(client.transport)
     THEN /\ reply' = ClientReply("disconnect", "returned")
          /\ UNCHANGED client
     ELSE /\ Len(client.closing) < MaxTransports
          /\ client' = [client EXCEPT !.closing = Append(@, client.transport.id)]
          /\ reply' = ClientReply("disconnect", "pending")
  /\ UNCHANGED <<toolRegistry, negotiatedProtocolVersion, resources, pc, registered,
                 options, crudOptions>>

\* disconnect() after the await: close() resolved or rejected
CloseSettled(k, ok) ==
  /\ k \in 1..Len(client.closing)
  /\ client' = [client EXCEPT !.closing = RemoveAt(@, k),
                               !.transport = IF ok THEN JsNull ELSE @,
                               !.connected = IF ok THEN FALSE ELSE @]
  /\ reply' = ClientReply("disconnect", IF ok THEN "resolved" ELSE "rejected")
  /\ UNCHANGED <<toolRegistry, negotiatedProtocolVersion, resources, pc, registered,
                 options, crudOptions>>

NextClient ==
  \/ ClientStdio
  \/ \E url \in Urls : ClientHttp(url)
  \/ Connect
  \/ \E t \in 1..MaxTransports, ok \in BOOLEAN : ConnectSettled(t, ok)
  \/ Disconnect
  \/ \E k \in 1..MaxTransports, ok \in BOOLEAN : CloseSettled(k, ok)

SpecClient == Init /\ [][NextClient]_vars

\* ------------------------------------------------------------------------
\* Properties
\* ------------------------------------------------------------------------
Names(map) == {map[i].key : i \in 1..Len(map)}
Position(map, key) == CHOOSE i \in 1..Len(map) : map[i].key = key
Revisions == {NULL, LEGACY, MODERN}
ListedNames(tools) == [i \in 1..Len(tools) |-> tools[i].name]

\* C1: a handshake negotiates LEGACY exactly when the claimed protocolVersion
\* is the string '2024-11-05' and MODERN for every other or missing claim;
\* the handler answers every claim, and the protocolVersion of its result
\* is the stored revision.
HandshakeNegotiates ==
  /\ reply.op = "initialize" =>
       /\ (negotiatedProtocolVersion[reply.inst] = LEGACY <=> reply.name = LEGACY)
       /\ (reply.name # LEGACY => negotiatedProtocolVersion[reply.inst] = MODERN)
       /\ reply.protocolVersion = negotiatedProtocolVersion[reply.inst]
  /\ pc[Stdio] \in {"connecting", "started"} =>
       \A v \in ClaimedVersions : ENABLED Initialize(Stdio, v)

HandshakeNegotiatesWitness ==
  /\ reply.op = "initialize"
  /\ reply.name = ABSENT
  /\ negotiatedProtocolVersion[Stdio] = MODERN

\* C2: once a connection has negotiated a revision, no later event on it
\* changes the stored revision.
RevisionFixedOnceNegotiated ==
  [][\A i \in Instances :
       negotiatedProtocolVersion[i] # NULL =>
         negotiatedProtocolVersion'[i] = negotiatedProtocolVersion[i]]_vars

\* C3: the tool-list response is the same whether the connection is LEGACY,
\* MODERN or unnegotiated, and every entry carries description, inputSchema
\* and annotations.
ListIgnoresRevision ==
  reply.op = "tools/list" =>
    /\ \A v \in Revisions : reply.tools = ListToolsResult(toolRegistry[reply.inst], v)
    /\ \A n \in 1..Len(reply.tools) :
         {"name", "description", "inputSchema", "annotations"}
           \subseteq DOMAIN reply.tools[n]

ListIgnoresRevisionWitness ==
  /\ reply.op = "tools/list"
  /\ negotiatedProtocolVersion[Stdio] = LEGACY
  /\ Len(reply.tools) > 1

\* C4: in every entry of a tool-list response annotations.description is the
\* entry's description, and annotations[k] = inputSchema[k] for every key k
\* of inputSchema.
AnnotationsMirrorEntry ==
  reply.op = "tools/list" =>
    \A n \in 1..Len(reply.tools) :
      LET e == reply.tools[n]
      IN /\ e.annotations.description = e.description
         /\ \A k \in DOMAIN e.inputSchema : e.annotations[k] = e.inputSchema[k]

\* C5: the tool-list response has exactly one entry per registered name, in
\* the order of the names' first registration.
ListInFirstRegistrationOrder ==
  reply.op = "tools/list" =>
    /\ ListedNames(reply.tools) = registered[reply.inst]
    /\ \A m, n \in 1..Len(reply.tools) :
         reply.tools[m].name = reply.tools[n].name => m = n

ListInFirstRegistrationOrderWitness ==
  /\ reply.op = "tools/list"
  /\ ListedNames(reply.tools) =
       <<"echo", "getNote", "getAllNotes", "createNote", "updateNote", "deleteNote">>
  /\ reply.tools[2].description = "Echoes input"

\* C6: a name that is registered again keeps the position it has in the
\* registry.
ReRegistrationKeepsPosition ==
  [][\A i \in Instances : \A n \in Names(toolRegistry[i]) :
       /\ n \in Names(toolRegistry'[i])
       /\ Position(toolRegistry'[i], n) = Position(toolRegistry[i], n)]_vars

ReRegistrationKeepsPositionWitness ==
  /\ reply.op = "tool"
  /\ reply.existed
  /\ Len(toolRegistry[Stdio]) > 1
  /\ toolRegistry[Stdio][1].key = reply.name

NamesNeverRemoved ==
  [][\A i \in Instances :
       /\ Names(toolRegistry[i]) \subseteq Names(toolRegistry'[i])
       /\ (reply'.op = "tools/list" /\ reply'.inst = i) =>
            Names(toolRegistry[i]) \subseteq {reply'.tools[n].name : n \in 1..Len(reply'.tools)}]_vars

NamesNeverRemovedWitness ==
  /\ reply.op = "tools/list"
  /\ Len(reply.tools) = 6
  /\ "Notes" \in DOMAIN resources[Stdio]
  /\ negotiatedProtocolVersion[Stdio] # NULL

\* C9: a tool-list query before any handshake is answered as MODERN and
\* writes no negotiated revision; a first handshake claiming the legacy
\* token then negotiates LEGACY.
ListBeforeHandshake ==
  [][/\ reply'.op = "tools/list" =>
          /\ negotiatedProtocolVersion' = negotiatedProtocolVersion
          /\ negotiatedProtocolVersion[reply'.inst] = NULL =>
               /\ reply'.protocolVersion = MODERN
               /\ Len(reply'.tools) = Len(toolRegistry[reply'.inst])
     /\ (reply'.op = "initialize" /\ reply'.name = LEGACY
           /\ negotiatedProtocolVersion[reply'.inst] = NULL) =>
          negotiatedProtocolVersion'[reply'.inst] = LEGACY]_vars

ListBeforeHandshakeWitness ==
  /\ reply.op = "tools/list"
  /\ negotiatedProtocolVersion[Stdio] = NULL
  /\ Len(reply.tools) > 0

DescribeOps ==
  {"convertZodToJsonSchema", "convertObjectToJsonSchema", "_convertZodToJsonSchema"}
IsZod(schema, typeName) == HasDef(schema) /\ schema.typeName = typeName
RequiredOf(d) == IF "required" \in DOMAIN d THEN d.required ELSE <<>>
\* the inputSchema the registry holds for the tool of the last tool() call
Stored == MapGet(toolRegistry[Stdio], reply.name).inputSchema

\* the schemas built from the ten tags only
RECURSIVE TenTags(_)
TenTags(schema) ==
  /\ HasDef(schema)
  /\ CASE schema.typeName \in {"ZodString", "ZodNumber", "ZodBoolean", "ZodEnum", "ZodDate"} ->
           TRUE
        [] schema.typeName = "ZodArray" -> TenTags(schema.type)
        [] schema.typeName = "ZodObject" ->
           \A i \in 1..Len(schema.shape) : TenTags(schema.shape[i].value)
        [] schema.typeName \in {"ZodOptional", "ZodDefault"} -> TenTags(schema.innerType)
        [] schema.typeName = "ZodUnion" ->
           \A i \in 1..Len(schema.options) : TenTags(schema.options[i])
        [] OTHER -> FALSE

\* a description and every description nested in it
RECURSIVE SubDescriptions(_)
SubDescriptions(d) ==
  {d}
    \cup (IF "properties" \in DOMAIN d
          THEN UNION { SubDescriptions(d.properties[i].value) : i \in 1..Len(d.properties) }
          ELSE {})
    \cup (IF "items" \in DOMAIN d THEN SubDescriptions(d.items) ELSE {})
    \cup (IF "oneOf" \in DOMAIN d
          THEN UNION { SubDescriptions(d.oneOf[i]) : i \in 1..Len(d.oneOf) }
          ELSE {})

\* the scenario-A schema { title: string, tags: optional array of string }
ScenarioAShape ==
  <<Entry("title", Plain), Entry("tags", ZodOptional("", ZodArray("", Plain)))>>
ScenarioADescription ==
  [type |-> "object",
   properties |-> <<Entry("title", [type |-> "string"]),
                    Entry("tags", [type |-> "array", items |-> [type |-> "string"]])>>,
   required |-> <<"title">>,
   additionalProperties |-> FALSE]

\* C11: the introspector is total: whatever the input (null, a value without
\* a tag, an unknown tag, an object schema or mapping with a null or tagless
\* child), each of its three entry points returns a description and does not
\* throw.
IntrospectorTotal ==
  reply.op \in DescribeOps => ~Threw(reply.result)

\* C12: the inputSchema that tool() stores equals the description the
\* exported introspector gives of the same schema, for every schema built
\* from the ten tags; the scenario-A schema is stored with tags as an array
\* of strings.
StoredIsDescription ==
  /\ (reply.op = "tool" /\ TenTags(reply.schema)) =>
       Stored = convertZodToJsonSchema(reply.schema)
  /\ (reply.op = "tool" /\ reply.schema \in {ZodObject("", ScenarioAShape),
                                              PlainObject(ScenarioAShape)}) =>
       Stored = ScenarioADescription

\* C13: a field of an object schema is in the required list exactly when its
\* tag is neither ZodOptional nor ZodDefault, and the required names are in
\* declaration order.
RequiredIffNotWrapped ==
  (/\ reply.op \in {"convertZodToJsonSchema", "_convertZodToJsonSchema"}
   /\ IsZod(reply.schema, "ZodObject")
   /\ ~Threw(reply.result)) =>
    LET shape == reply.schema.shape
        required == RequiredOf(reply.result)
    IN /\ \A i \in 1..Len(shape) :
            (\E j \in 1..Len(required) : required[j] = shape[i].key)
              <=> shape[i].value.typeName \notin {"ZodOptional", "ZodDefault"}
       /\ \A j, k \in 1..Len(required) :
            j < k => Position(shape, required[j]) < Position(shape, required[k])

RequiredIffNotWrappedWitness ==
  /\ reply.op = "convertZodToJsonSchema"
  /\ reply.schema = ZodObject("", <<Entry("title", ZodDefault("", Plain, "x")),
                                    Entry("tags", ZodArray("", Plain))>>)
  /\ RequiredOf(reply.result) = <<"tags">>

\* the description the last call returned or stored
Outcome == IF reply.op = "tool" THEN Stored ELSE reply.result
HasOutcome ==
  \/ reply.op = "tool"
  \/ (reply.op \in DescribeOps /\ ~Threw(reply.result))
Closed(d) ==
  /\ "additionalProperties" \in DOMAIN d
  /\ d.additionalProperties = FALSE
  /\ "required" \in DOMAIN d => Len(d.required) > 0
EmptyObjectDescription ==
  [type |-> "object", properties |-> <<>>, additionalProperties |-> FALSE]
ZeroProperties ==
  (reply.op \in DescribeOps \ {"convertObjectToJsonSchema"}
     /\ reply.schema \in {ZodObject("", <<>>), ZodObject("Echoes input", <<>>)}) =>
    reply.result = EmptyObjectDescription

ArrayItemsDescribed ==
  /\ (reply.op = "convertZodToJsonSchema" /\ IsZod(reply.schema, "ZodArray")) =>
       reply.result = [type |-> "array",
                       items |-> convertZodToJsonSchema(reply.schema.type)]
  /\ (reply.op = "convertZodToJsonSchema"
        /\ reply.schema = ZodArray("tags", ZodArray("", Plain))) =>
       reply.result = [type |-> "array",
                       items |-> [type |-> "array", items |-> [type |-> "string"]]]
  /\ (reply.op = "convertZodToJsonSchema"
        /\ reply.schema = ZodArray("", ZodObject("", <<Entry("title", Plain)>>))) =>
       reply.result = [type |-> "array",
                       items |-> [type |-> "object",
                                  properties |-> <<Entry("title", [type |-> "string"])>>,
                                  required |-> <<"title">>,
                                  additionalProperties |-> FALSE]]

ArrayItemsDescribedWitness ==
  /\ reply.op = "convertZodToJsonSchema"
  /\ reply.schema = ZodArray("tags", ZodArray("", Plain))
  /\ reply.result.items.items.type = "string"

\* C16: a schema node that carries description text, whatever its tag, is
\* described with a description field equal to that text.
DescriptionPreserved ==
  (/\ reply.op = "convertZodToJsonSchema"
   /\ HasDef(reply.schema)
   /\ reply.schema.description # ""
   /\ ~Threw(reply.result)) =>
    /\ "description" \in DOMAIN reply.result
    /\ reply.result.description = reply.schema.description

HasKind(checks, kind) == \E i \in 1..Len(checks) : checks[i].kind = kind
FirstOfKind(checks, kind) ==
  checks[CHOOSE i \in 1..Len(checks) :
           /\ checks[i].kind = kind
           /\ \A j \in 1..(i - 1) : checks[j].kind # kind].value
Keys(entries) == [i \in 1..Len(entries) |-> entries[i].key]
IsSchemaValue(v) == Truthy(v) /\ HasDef(v)

\* C22: minLength (maxLength) of a described string schema is the value of
\* the first min (max) check of the list, and a schema with a min and a max
\* check is described with both.
FirstCheckWins ==
  (reply.op \in {"convertZodToJsonSchema", "_convertZodToJsonSchema"}
     /\ IsZod(reply.schema, "ZodString")) =>
    /\ HasKind(reply.schema.checks, "min") <=> "minLength" \in DOMAIN reply.result
    /\ HasKind(reply.schema.checks, "max") <=> "maxLength" \in DOMAIN reply.result
    /\ HasKind(reply.schema.checks, "min") =>
         reply.result.minLength = FirstOfKind(reply.schema.checks, "min")
    /\ HasKind(reply.schema.checks, "max") =>
         reply.result.maxLength = FirstOfKind(reply.schema.checks, "max")

\* C23: a default wrapper is described as the wrapped schema is, every
\* field unchanged, plus default = the wrapper's value, which replaces a
\* default the wrapped description carries; default inside optional and
\* optional inside default are described as the innermost schema plus the
\* one default.
DefaultOverlays ==
  /\ (reply.op = "convertZodToJsonSchema" /\ IsZod(reply.schema, "ZodDefault")
        /\ ~Threw(reply.result)) =>
       LET inner == convertZodToJsonSchema(reply.schema.innerType)
       IN /\ DOMAIN reply.result = DOMAIN inner \cup {"default"}
          /\ \A k \in DOMAIN inner \ {"default"} : reply.result[k] = inner[k]
          /\ reply.result.default = reply.schema.defaultValue
  /\ (reply.op = "convertZodToJsonSchema"
        /\ reply.schema \in {ZodOptional("", ZodDefault("", Plain, "x")),
                              ZodDefault("", ZodOptional("", Plain), "x")}) =>
       reply.result = [type |-> "string", default |-> "x"]

DefaultOverlaysWitness ==
  /\ reply.op = "convertZodToJsonSchema"
  /\ reply.schema = ZodDefault("", ZodDefault("", Plain, "x"), "y")
  /\ reply.result = [type |-> "string", default |-> "y"]

\* C24: null, a non-object and a value without _def are described as exactly
\* {type: "object"}; a value with a _def whose typeName no case names is
\* described as exactly {type: "string"}.
FallbacksDistinct ==
  /\ (reply.op = "convertZodToJsonSchema" /\ ~IsSchemaValue(reply.schema)) =>
       reply.result = [type |-> "object"]
  /\ (reply.op = "convertZodToJsonSchema" /\ IsZod(reply.schema, "ZodBigInt")) =>
       reply.result = [type |-> "string"]

FallbacksDistinctWitness ==
  /\ reply.op = "convertZodToJsonSchema"
  /\ reply.schema = [js |-> "zod", typeName |-> "ZodBigInt", description |-> "big"]
  /\ reply.result = [type |-> "string"]

\* C25: a mapping whose values are all schema values is described by
\* convertObjectToJsonSchema as the object schema with the same children in
\* the same order is described by convertZodToJsonSchema.
MappingAsObject ==
  (reply.op = "convertObjectToJsonSchema"
     /\ \A i \in 1..Len(reply.schema.entries) : IsSchemaValue(reply.schema.entries[i].value)) =>
    reply.result = convertZodToJsonSchema(ZodObject("", reply.schema.entries))

MappingAsObjectWitness ==
  /\ reply.op = "convertObjectToJsonSchema"
  /\ reply.schema = PlainObject(ScenarioAShape)
  /\ reply.result = ScenarioADescription

\* C26: a value of a mapping that is null or has no _def is skipped: its
\* key is neither in properties nor in required, and the description is
\* that of the mapping without the skipped keys; tool() stores the same.
NonSchemaValuesSkipped ==
  LET entries == reply.schema.entries
      rest == SelectSeq(entries, LAMBDA e : IsSchemaValue(e.value))
      skipped == {entries[i].key : i \in {j \in 1..Len(entries) : ~IsSchemaValue(entries[j].value)}}
      Without(d) ==
        /\ Keys(d.properties) = Keys(rest)
        /\ \A j \in 1..Len(RequiredOf(d)) : RequiredOf(d)[j] \notin skipped
  IN /\ (reply.op = "convertObjectToJsonSchema" /\ ~Threw(reply.result)) =>
          /\ Without(reply.result)
          /\ reply.result = convertObjectToJsonSchema(PlainObject(rest))
     /\ (reply.op = "tool" /\ reply.schema.js = "object") =>
          /\ Without(Stored)
          /\ Stored = _convertObjectToJsonSchema(PlainObject(rest))

NonSchemaValuesSkippedWitness ==
  /\ reply.op = "tool"
  /\ reply.schema = PlainObject(<<Entry("title", PlainObject(<<>>)), Entry("tags", Plain)>>)
  /\ Stored = [type |-> "object",
               properties |-> <<Entry("tags", [type |-> "string"])>>,
               required |-> <<"tags">>,
               additionalProperties |-> FALSE]

\* C27: an optional wrapper is described exactly as the schema it wraps,
\* and as a field of an object schema it differs only in not being in
\* required.
OptionalTransparent ==
  /\ (reply.op = "convertZodToJsonSchema" /\ IsZod(reply.schema, "ZodOptional")) =>
       reply.result = convertZodToJsonSchema(reply.schema.innerType)
  /\ (reply.op = "convertZodToJsonSchema"
        /\ reply.schema = ZodOptional("", ZodArray("", Plain))) =>
       reply.result = [type |-> "array", items |-> [type |-> "string"]]
  /\ (reply.op = "convertZodToJsonSchema" /\ IsZod(reply.schema, "ZodObject")
        /\ ~Threw(reply.result)) =>
       \A i \in 1..Len(reply.schema.shape) :
         LET field == reply.schema.shape[i]
         IN field.value.typeName = "ZodOptional" =>
              /\ reply.result.properties[i].value =
                   convertZodToJsonSchema(field.value.innerType)
              /\ \A j \in 1..Len(RequiredOf(reply.result)) :
                   RequiredOf(reply.result)[j] # field.key

OptionalTransparentWitness ==
  /\ reply.op = "convertZodToJsonSchema"
  /\ reply.schema = ZodObject("", <<Entry("title", ZodOptional("optional note", Plain)),
                                    Entry("tags", Plain)>>)
  /\ reply.result.properties[1].value = [type |-> "string"]
  /\ reply.result.required = <<"tags">>

DeleteResourceDeletes ==
  [][\A name \in ResourceNames, id \in ResourceIds :
       DeleteResource(Stdio, name, id) =>
         /\ ~HasKey(getResource(resources'[Stdio], name), id)
         /\ DOMAIN resources'[Stdio] = DOMAIN resources[Stdio]
         /\ \A n \in DOMAIN resources[Stdio] : \A k \in DOMAIN resources[Stdio][n] :
              (n # name \/ k # id) =>
                /\ HasKey(resources'[Stdio][n], k)
                /\ resources'[Stdio][n][k] = resources[Stdio][n][k]]_vars

\* ------------------------------------------------------------------------
\* Properties of the CRUD handlers (SpecCrud)
\* ------------------------------------------------------------------------
\* the store of the resource crud() was called for
Items(stores) == stores[Stdio][crudOptions[Stdio].pluralName]
\* every key of the store but id is in both stores with the same value
OthersUnchanged(before, after, id) ==
  /\ DOMAIN before \ {id} = DOMAIN after \ {id}
  /\ \A k \in DOMAIN before \ {id} : after[k] = before[k]

\* C19: with ID generation disabled, the create handler given data without
\* an id answers success false with 'ID is required when auto-generation is
\* disabled' and leaves the stores as they are; given an id it stores the
\* item under exactly that id.
CreateWithoutGeneratedId ==
  [][(/\ reply'.op = "create"
      /\ crudOptions[Stdio] # NoCrud
      /\ ~crudOptions[Stdio].generateIds) =>
       IF ~HasKey(reply'.data, "id")
       THEN /\ reply'.success = FALSE
            /\ reply'.error = "ID is required when auto-generation is disabled"
            /\ resources' = resources
       ELSE LET id == reply'.data.id
            IN /\ reply'.success = TRUE
               /\ HasKey(Items(resources'), id)
               /\ Items(resources')[id].id = id
               /\ Items(resources')[id].title = reply'.data.title
               /\ OthersUnchanged(Items(resources), Items(resources'), id)]_vars

\* C20: the get, update and delete handlers given an id that is not a key
\* of the store answer success false with '<singularName> not found' and
\* leave the stores as they are; given a key of the store, delete removes
\* exactly that item and update replaces exactly that item.
MissingIdNotFound ==
  [][(reply'.op \in {"get", "update", "delete"} /\ crudOptions[Stdio] # NoCrud) =>
       LET id == reply'.id
       IN IF ~HasKey(Items(resources), id)
          THEN /\ reply'.success = FALSE
               /\ reply'.error = crudOptions[Stdio].singularName \o " not found"
               /\ resources' = resources
          ELSE /\ reply'.op = "delete" =>
                    /\ ~HasKey(Items(resources'), id)
                    /\ OthersUnchanged(Items(resources), Items(resources'), id)
               /\ reply'.op = "update" =>
                    /\ HasKey(Items(resources'), id)
                    /\ Items(resources')[id].title = reply'.data.title
                    /\ OthersUnchanged(Items(resources), Items(resources'), id)]_vars

\* C28: the item the create handler stores has an id field equal to the key
\* it is stored under, whatever the data (data with an id of its own while
\* ids are generated included), and the update handler keeps it so.
StoredIdIsKey ==
  [][/\ (reply'.op = "create" /\ reply'.success /\ HasKey(Items(resources'), reply'.id)) =>
          Items(resources')[reply'.id].id = reply'.id
     /\ (reply'.op = "update" /\ reply'.success
           /\ HasKey(Items(resources), reply'.id)
           /\ HasKey(Items(resources)[reply'.id], "id")
           /\ Items(resources)[reply'.id].id = reply'.id) =>
          Items(resources')[reply'.id].id = reply'.id]_vars

\* ------------------------------------------------------------------------
\* Properties of registration on a running server (SpecLive)
\* ------------------------------------------------------------------------
\* C29: a tool-list response lists the registry as it is when the request
\* is answered: a tool registered or registered again after start() and
\* after an earlier tool-list response is in the next response, with the
\* description and inputSchema of its latest registration.
ListReflectsRegistry ==
  [][reply'.op = "tools/list" =>
       LET registry == toolRegistry[Stdio]
           latest == _extractToolInfo(reply.name, reply.schema)
       IN /\ Len(reply'.tools) = Len(registry)
          /\ \A i \in 1..Len(registry) :
               /\ reply'.tools[i].name = registry[i].key
               /\ reply'.tools[i].description = registry[i].value.description
               /\ reply'.tools[i].inputSchema = registry[i].value.inputSchema
          /\ reply.op = "tool" =>
               \E i \in 1..Len(reply'.tools) :
                 /\ reply'.tools[i].name = reply.name
                 /\ reply'.tools[i].description = latest.description
                 /\ reply'.tools[i].inputSchema = latest.inputSchema]_vars

ListReflectsRegistryWitness ==
  /\ reply.op = "tools/list"
  /\ pc[Stdio] = "started"
  /\ ListedNames(reply.tools) = <<"getNote", "echo">>
  /\ reply.tools[2].description = "Echoes input"
  /\ reply.tools[1].inputSchema = [type |-> "object"]

\* ------------------------------------------------------------------------
\* Properties of the client (SpecClient)
\* ------------------------------------------------------------------------
\* C21: the client holds a transport exactly when the last connect() or
\* disconnect() that did its work was a connect().  A connect() that
\* rejects stores nothing, a disconnect() that resolves after a close
\* leaves transport null, one whose close rejects keeps the transport, and
\* one called with no transport stored changes nothing and returns.
TransportTracksConnection ==
  [][/\ IsTransport(client'.transport) <=> client'.connected
     /\ (reply'.op = "connect" /\ reply'.outcome = "rejected") =>
          client'.transport = client.transport
     /\ (reply'.op = "connect" /\ reply'.outcome = "resolved") =>
          IsTransport(client'.transport)
     /\ (reply'.op = "disconnect" /\ reply'.outcome = "resolved") =>
          client'.transport = JsNull
     /\ (reply'.op = "disconnect" /\ reply'.outcome = "rejected") =>
          client'.transport = client.transport
     /\ (reply'.op = "disconnect" /\ ~IsTransport(client.transport)
           /\ client.closing = <<>>) =>
          (reply'.outcome = "returned" /\ client' = client)]_vars

TransportTracksConnectionWitness ==
  /\ reply.op = "disconnect"
  /\ reply.outcome = "rejected"
  /\ IsTransport(client.transport)
  /\ client.created = 2

====
